---- MODULE Spec2Model ----
(***************************************************************************)
(* gits: discovery of git repositories below the working directory, the    *)
(* filter pipeline, and the bounded-parallel orchestration of one task per *)
(* matched repository (main, processRepo, statusRepo).                     *)
(*                                                                         *)
(* Strings are sequences of byte values, so that sort.Strings, len and     *)
(* fmt.Sprintf are computed on what the program computes them on.          *)
(***************************************************************************)
EXTENDS Integers, Sequences, FiniteSets, TLC

(* ---------------------------- bounds ----------------------------------- *)
\* number of directories that are not plain (git roots, unreadable ones) in
\* the trees the walk is explored on
MaxSpecial == 2
\* number of repositories in the trees the orchestration is explored on
MaxTasks == 3
\* largest value of the -parallel flag
MaxParallel == 2
\* number of ticks of the one-second ticker during one run
MaxTicks == 1

(* ---------------------------- strings ---------------------------------- *)
ESC == 27
NL == 10
SP == 32
SLASH == 47

S_dot == <<46>>                              \* "."
S_main == <<109, 97, 105, 110>>              \* "main"
S_topic == <<116>>                           \* "t", a branch other than main
S_check == <<226, 156, 133, 239, 184, 143>>  \* U+2705 U+FE0F
S_cross == <<226, 157, 140>>                 \* U+274C
S_bold == <<ESC, 91, 49, 109>>               \* ESC [ 1 m
S_reset == <<ESC, 91, 48, 109>>              \* ESC [ 0 m
S_errtext == <<101, 49>>                     \* "e1", the text of an exec error
Cwd == <<SLASH, 119>>                        \* "/w"

RECURSIVE Concat(_)
Concat(ss) == IF ss = <<>> THEN <<>> ELSE Head(ss) \o Concat(Tail(ss))

\* byte-wise string comparison, the order sort.Strings uses
RECURSIVE StrLess(_, _)
StrLess(a, b) ==
    IF b = <<>> THEN FALSE
    ELSE IF a = <<>> THEN TRUE
    ELSE IF Head(a) # Head(b) THEN Head(a) < Head(b)
    ELSE StrLess(Tail(a), Tail(b))

RECURSIVE Insert(_, _)
Insert(x, s) ==
    IF s = <<>> THEN <<x>>
    ELSE IF StrLess(x, Head(s)) THEN <<x>> \o s
    ELSE <<Head(s)>> \o Insert(x, Tail(s))

SortStrings_Unsorted(s) == s

\* sort.Strings
RECURSIVE SortStrings(_)
SortStrings(s) == IF s = <<>> THEN <<>> ELSE Insert(Head(s), SortStrings(Tail(s)))

IsSpace(c) == c \in {9, 10, 11, 12, 13, 32}

\* strings.TrimSpace
RECURSIVE TrimLeft(_)
TrimLeft(s) == IF s # <<>> /\ IsSpace(Head(s)) THEN TrimLeft(Tail(s)) ELSE s
RECURSIVE TrimRight(_)
TrimRight(s) ==
    IF s # <<>> /\ IsSpace(s[Len(s)]) THEN TrimRight(SubSeq(s, 1, Len(s) - 1)) ELSE s
TrimSpace(s) == TrimRight(TrimLeft(s))

\* strings.ReplaceAll(s, "\n", "\n  ")
RECURSIVE IndentNewlines(_)
IndentNewlines(s) ==
    IF s = <<>> THEN <<>>
    ELSE IF Head(s) = NL THEN <<NL, SP, SP>> \o IndentNewlines(Tail(s))
    ELSE <<Head(s)>> \o IndentNewlines(Tail(s))

RECURSIVE Spaces(_)
Spaces(n) == IF n <= 0 THEN <<>> ELSE <<SP>> \o Spaces(n - 1)

Max(a, b) == IF a > b THEN a ELSE b

(* ------------------------- the directory tree -------------------------- *)
\* the entry names, in byte order, which is the order Walk visits them in
EntryNames == << <<97>>, <<97, 45>>, <<98>> >>   \* "a", "a-", "b"
EntryName(i) == EntryNames[i]

\* a directory is the sequence of entry indices leading to it from the
\* working directory: ".", "a", "a/a", "a-", "b"
Dirs == {<<>>, <<1>>, <<1, 1>>, <<2>>, <<3>>}

RECURSIVE AbsPath(_)
AbsPath(d) ==
    IF d = <<>> THEN Cwd
    ELSE AbsPath(SubSeq(d, 1, Len(d) - 1)) \o <<SLASH>> \o EntryName(d[Len(d)])

\* outcomes of the git queries the filters read
GitOk(text) == [rc |-> 0, stdout |-> text]
GitFail == [rc |-> 128, stdout |-> <<>>]
HeadOutcomes == {GitOk(S_main \o <<NL>>), GitOk(S_topic \o <<NL>>), GitFail}
PorcelainOutcomes == {GitOk(<<>>), GitOk(<<SP, 77, SP, 102, NL>>), GitFail}

PlainDir == [kind |-> "plain", head |-> GitFail, porcelain |-> GitFail]
UnreadableDir == [kind |-> "unreadable", head |-> GitFail, porcelain |-> GitFail]
GitDirs == {[kind |-> "git", head |-> h, porcelain |-> p] :
               h \in HeadOutcomes, p \in PorcelainOutcomes}
SpecialDirs == GitDirs \cup {UnreadableDir}

TreeOf(S, g) == [d \in Dirs |-> IF d \in S THEN g[d] ELSE PlainDir]
\* the trees with at most n special directories, each of a kind in K
Trees(n, K) == UNION {{TreeOf(S, g) : g \in [S -> K]} :
                         S \in {T \in SUBSET Dirs : Cardinality(T) <= n}}
EmptyTree == [d \in Dirs |-> PlainDir]

(* ------------------------------ state ---------------------------------- *)
VARIABLES
    flags,          \* the parsed command line: parallel, branch, dirty, clean, mode
    fs,             \* the directory tree below the working directory
    statusEnv,      \* which outcomes the git queries of a status task can have
    pcMain,         \* position of main
    gitRepos,       \* main's gitRepos
    next,           \* index of the repository the dispatch loop is at
    results,        \* main's results, shared with the tasks
    finalExitCode,  \* main's finalExitCode, shared with the tasks
    totalTasks,
    remainingTasks, \* shared with the tasks and the progress goroutine
    sem,            \* number of tokens buffered in the channel sem
    semClosed,
    wg,             \* counter of the WaitGroup
    mu,             \* 0 when the mutex is free, else the task holding it
    taskpc,         \* position of each task goroutine
    tlocal,         \* each task's locals: exitCode, output, result, rem
    frames,         \* number of progress frames written
    dots,           \* length of the progress goroutine's dots
    printed,        \* the result lines written by the final loop
    exitCode        \* status the process exited with, -1 while it runs

vars == <<flags, fs, statusEnv, pcMain, gitRepos, next, results, finalExitCode, totalTasks,
          remainingTasks, sem, semClosed, wg, mu, taskpc, tlocal, frames, dots,
          printed, exitCode>>

mainVars == <<pcMain, gitRepos, next, totalTasks, printed, exitCode>>
sharedVars == <<results, finalExitCode, remainingTasks, sem, semClosed, wg, mu>>
taskVars == <<taskpc, tlocal>>
tickVars == <<frames, dots>>

Tasks == 1..Len(taskpc)

(* ----------------------------- git queries ----------------------------- *)
\* getCurrentBranch
getCurrentBranch(q) ==
    IF q.rc # 0 THEN [out |-> <<>>, err |-> TRUE]
    ELSE [out |-> TrimSpace(q.stdout), err |-> FALSE]

\* isDirty
isDirty(q) ==
    IF q.rc # 0 THEN [r |-> FALSE, err |-> TRUE]
    ELSE [r |-> Len(q.stdout) > 0, err |-> FALSE]

\* isClean
isClean(q) ==
    IF q.rc # 0 THEN [r |-> FALSE, err |-> TRUE]
    ELSE [r |-> Len(q.stdout) = 0, err |-> FALSE]

\* isGitRepo
isGitRepo(tree, d) == tree[d].kind = "git"

(* --------------------------- filter pipeline --------------------------- *)
\* the filters main builds from the flags, in the order it appends them
Filters(fl) ==
    (IF fl.branch # <<>> THEN <<"branch">> ELSE <<>>)
    \o (IF fl.dirty THEN <<"dirty">> ELSE <<>>)
    \o (IF fl.clean THEN <<"clean">> ELSE <<>>)

\* one filter applied to the repository at d
ApplyFilter(f, fl, tree, d) ==
    IF f = "branch"
    THEN LET b == getCurrentBranch(tree[d].head)
         IN [r |-> b.out = fl.branch, err |-> b.err]
    ELSE IF f = "dirty" THEN isDirty(tree[d].porcelain)
    ELSE isClean(tree[d].porcelain)

\* the test of the walk callback on a filter's result
FilterRejects(res) == res.err \/ ~res.r

PassesFilters_Any(fl, tree, d) ==
    \E k \in 1..Len(Filters(fl)) : ~FilterRejects(ApplyFilter(Filters(fl)[k], fl, tree, d))

\* the filter loop of the walk callback: TRUE when no filter rejects d
PassesFilters(fl, tree, d) ==
    \A k \in 1..Len(Filters(fl)) : ~FilterRejects(ApplyFilter(Filters(fl)[k], fl, tree, d))

(* ------------------------------- the walk ------------------------------ *)
Callback_DescendsIntoExcluded(fl, tree, d) ==
    IF tree[d].kind = "unreadable" THEN "err"
    ELSE IF isGitRepo(tree, d) /\ PassesFilters(fl, tree, d) THEN "record"
    ELSE "nil"

Callback_FilterErrorAborts(fl, tree, d) ==
    IF tree[d].kind = "unreadable" THEN "err"
    ELSE IF isGitRepo(tree, d)
         THEN IF \E k \in 1..Len(Filters(fl)) : ApplyFilter(Filters(fl)[k], fl, tree, d).err
              THEN "err"
              ELSE IF PassesFilters(fl, tree, d) THEN "record" ELSE "skip"
    ELSE "nil"

\* main's walk callback on directory d: "err" returns the error Walk handed in,
\* "record" appends d to gitRepos and returns SkipDir, "skip" returns SkipDir,
\* "nil" lets Walk descend
Callback(fl, tree, d) ==
    IF tree[d].kind = "unreadable" THEN "err"
    ELSE IF isGitRepo(tree, d)
         THEN IF PassesFilters(fl, tree, d) THEN "record" ELSE "skip"
    ELSE "nil"

\* filepath.Walk with main's callback: st is [repos, err], the list collected so
\* far and whether the walk has been aborted by an error; the entries of a
\* directory are visited in the order of their names
RECURSIVE WalkDir(_, _, _, _)
RECURSIVE WalkEntries(_, _, _, _, _)
WalkDir_DescendsIntoRecorded(fl, tree, d, st) ==
    LET c == Callback(fl, tree, d)
    IN IF st.err THEN st
       ELSE IF c = "err" THEN [st EXCEPT !.err = TRUE]
       ELSE IF c = "record"
            THEN WalkEntries(fl, tree, d, 1, [st EXCEPT !.repos = Append(@, AbsPath(d))])
       ELSE IF c = "skip" THEN st
       ELSE WalkEntries(fl, tree, d, 1, st)

WalkDir(fl, tree, d, st) ==
    LET c == Callback(fl, tree, d)
    IN IF st.err THEN st
       ELSE IF c = "err" THEN [st EXCEPT !.err = TRUE]
       ELSE IF c = "record" THEN [st EXCEPT !.repos = Append(@, AbsPath(d))]
       ELSE IF c = "skip" THEN st
       ELSE WalkEntries(fl, tree, d, 1, st)
WalkEntries(fl, tree, d, k, st) ==
    IF k > Len(EntryNames) \/ st.err THEN st
    ELSE IF Append(d, k) \notin Dirs THEN WalkEntries(fl, tree, d, k + 1, st)
    ELSE WalkEntries(fl, tree, d, k + 1, WalkDir(fl, tree, Append(d, k), st))

Walk(fl, tree) == WalkDir(fl, tree, <<>>, [repos |-> <<>>, err |-> FALSE])

\* filepath.Rel(cwd, path) for a path at or below cwd
RelPath(path) ==
    IF path = Cwd THEN S_dot ELSE SubSeq(path, Len(Cwd) + 2, Len(path))

(* ------------------------- command executor ---------------------------- *)
\* what runCommand can return: the captured output and the exit code
\* ("o\n" and 0, "e\n" and 2)
CommandOutcomes == {[output |-> <<111, NL>>, exitCode |-> 0],
                    [output |-> <<101, NL>>, exitCode |-> 2]}

\* the status marker and the formatted block of processRepo
Marker(code) == IF code # 0 THEN S_cross ELSE S_check
ProcessResult_PathFirst(relPath, output, code) ==
    S_bold \o relPath \o <<SP>> \o Marker(code) \o <<58>> \o S_reset
        \o <<NL, SP, SP>> \o IndentNewlines(output)

ProcessResult(relPath, output, code) ==
    S_bold \o Marker(code) \o <<SP>> \o relPath \o <<58>> \o S_reset
        \o <<NL, SP, SP>> \o IndentNewlines(output)

(* -------------------------- status inspector --------------------------- *)
BehindRemote == -1
SyncRemote == 0
AheadRemote == 1

HasPrefix(s, p) == Len(s) >= Len(p) /\ SubSeq(s, 1, Len(p)) = p
Contains(s, p) == \E k \in 1..(Len(s) - Len(p) + 1) : SubSeq(s, k, k + Len(p) - 1) = p

\* strings.SplitN(s, "\n", 2)[0]
RECURSIVE FirstLine(_)
FirstLine(s) ==
    IF s = <<>> \/ Head(s) = NL THEN <<>> ELSE <<Head(s)>> \o FirstLine(Tail(s))

\* strings.Split(s, "\n")
RECURSIVE SplitLines(_)
SplitLines(s) ==
    LET l == FirstLine(s)
    IN IF Len(l) = Len(s) THEN <<l>>
       ELSE <<l>> \o SplitLines(SubSeq(s, Len(l) + 2, Len(s)))

\* getDefaultBranch
getDefaultBranch(q) ==
    IF q.rc # 0 THEN [out |-> <<>>, err |-> TRUE]
    ELSE [out |-> IF TrimSpace(q.stdout) = <<>> THEN S_main ELSE TrimSpace(q.stdout),
          err |-> FALSE]

S_hashes == <<35, 35>>                          \* "##"
S_behind == <<91, 98, 101, 104, 105, 110, 100>> \* "[behind"
S_ahead == <<91, 97, 104, 101, 97, 100>>        \* "[ahead"

getRemoteSyncStatus_WholeOutput(q) ==
    IF q.rc # 0 THEN [state |-> SyncRemote, err |-> TRUE]
    ELSE IF ~HasPrefix(q.stdout, S_hashes) THEN [state |-> SyncRemote, err |-> TRUE]
    ELSE IF Contains(q.stdout, S_behind) THEN [state |-> BehindRemote, err |-> FALSE]
    ELSE IF Contains(q.stdout, S_ahead) THEN [state |-> AheadRemote, err |-> FALSE]
    ELSE [state |-> SyncRemote, err |-> FALSE]

getRemoteSyncStatus_AheadFirst(q) ==
    IF q.rc # 0 THEN [state |-> SyncRemote, err |-> TRUE]
    ELSE LET firstLine == FirstLine(q.stdout)
         IN IF ~HasPrefix(firstLine, S_hashes) THEN [state |-> SyncRemote, err |-> TRUE]
            ELSE IF Contains(firstLine, S_ahead) THEN [state |-> AheadRemote, err |-> FALSE]
            ELSE IF Contains(firstLine, S_behind) THEN [state |-> BehindRemote, err |-> FALSE]
            ELSE [state |-> SyncRemote, err |-> FALSE]

\* getRemoteSyncStatus
getRemoteSyncStatus(q) ==
    IF q.rc # 0 THEN [state |-> SyncRemote, err |-> TRUE]
    ELSE LET firstLine == FirstLine(q.stdout)
         IN IF ~HasPrefix(firstLine, S_hashes) THEN [state |-> SyncRemote, err |-> TRUE]
            ELSE IF Contains(firstLine, S_behind) THEN [state |-> BehindRemote, err |-> FALSE]
            ELSE IF Contains(firstLine, S_ahead) THEN [state |-> AheadRemote, err |-> FALSE]
            ELSE [state |-> SyncRemote, err |-> FALSE]

\* the loop of getLocalBranches over the split names
RECURSIVE NonEmptyTrimmed(_)
NonEmptyTrimmed(names) ==
    IF names = <<>> THEN <<>>
    ELSE IF TrimSpace(Head(names)) = <<>> THEN NonEmptyTrimmed(Tail(names))
    ELSE <<TrimSpace(Head(names))>> \o NonEmptyTrimmed(Tail(names))

\* getLocalBranches
getLocalBranches(q) ==
    IF q.rc # 0 THEN [out |-> <<>>, err |-> TRUE]
    ELSE [out |-> NonEmptyTrimmed(SplitLines(q.stdout)), err |-> FALSE]

\* slices.DeleteFunc(s, func(x) { return x == v })
RECURSIVE DeleteEqual(_, _)
DeleteEqual(s, v) ==
    IF s = <<>> THEN <<>>
    ELSE IF Head(s) = v THEN DeleteEqual(Tail(s), v)
    ELSE <<Head(s)>> \o DeleteEqual(Tail(s), v)

S_dirtyMark == <<240, 159, 147, 157>>
S_behindMark == <<240, 159, 152, 176>>
S_aheadMark == <<240, 159, 143, 142, 240, 159, 146, 168>>
S_red == <<ESC, 91, 51, 49, 109>>               \* ESC [ 3 1 m

RECURSIVE BranchSegments(_)
BranchSegments(names) ==
    IF names = <<>> THEN <<>>
    ELSE <<SP, 91, ESC, 91, 51, 52, 109>> \o Head(names) \o S_reset \o <<93>>
             \o BranchSegments(Tail(names))

StatusResult_CleanOnError(relPath, width, q) ==
    LET cur == getCurrentBranch(q.head)
        currentBranch == IF cur.err THEN <<33>> \o S_errtext ELSE cur.out
        def == getDefaultBranch(q.config)
        defaultBranch == IF def.err THEN S_main ELSE def.out
        sync == getRemoteSyncStatus(q.branchStatus)
        remoteSync == IF sync.err THEN SyncRemote ELSE sync.state
        cl == isClean(q.porcelain)
        clean == IF cl.err THEN TRUE ELSE cl.r
        localBranches == SortStrings(DeleteEqual(getLocalBranches(q.branches).out,
                                                 currentBranch))
        status == (IF ~clean THEN S_dirtyMark ELSE <<>>)
                  \o (IF remoteSync = BehindRemote THEN S_behindMark
                      ELSE IF remoteSync = AheadRemote THEN S_aheadMark ELSE <<>>)
        branches ==
            (IF currentBranch = defaultBranch
             THEN <<SP, 91, ESC, 91, 49, 59, 51, 50, 109>>
             ELSE <<SP, 91, ESC, 91, 49, 59, 51, 49, 109>>)
            \o currentBranch \o S_reset \o <<93>>
            \o (IF Len(status) > 0
                THEN S_red \o <<40>> \o S_reset \o status \o S_red \o <<41>> \o S_reset
                ELSE <<>>)
            \o BranchSegments(localBranches)
    IN S_bold \o relPath \o Spaces(width - Len(relPath)) \o S_reset \o branches

\* the line statusRepo renders for relPath from the outcomes q of its git queries
StatusResult(relPath, width, q) ==
    LET cur == getCurrentBranch(q.head)
        currentBranch == IF cur.err THEN <<33>> \o S_errtext ELSE cur.out
        def == getDefaultBranch(q.config)
        defaultBranch == IF def.err THEN S_main ELSE def.out
        sync == getRemoteSyncStatus(q.branchStatus)
        remoteSync == IF sync.err THEN SyncRemote ELSE sync.state
        cl == isClean(q.porcelain)
        clean == IF cl.err THEN FALSE ELSE cl.r
        localBranches == SortStrings(DeleteEqual(getLocalBranches(q.branches).out,
                                                 currentBranch))
        status == (IF ~clean THEN S_dirtyMark ELSE <<>>)
                  \o (IF remoteSync = BehindRemote THEN S_behindMark
                      ELSE IF remoteSync = AheadRemote THEN S_aheadMark ELSE <<>>)
        branches ==
            (IF currentBranch = defaultBranch
             THEN <<SP, 91, ESC, 91, 49, 59, 51, 50, 109>>
             ELSE <<SP, 91, ESC, 91, 49, 59, 51, 49, 109>>)
            \o currentBranch \o S_reset \o <<93>>
            \o (IF Len(status) > 0
                THEN S_red \o <<40>> \o S_reset \o status \o S_red \o <<41>> \o S_reset
                ELSE <<>>)
            \o BranchSegments(localBranches)
    IN S_bold \o relPath \o Spaces(width - Len(relPath)) \o S_reset \o branches

\* the outcomes of the five git queries of one statusRepo call
QueriesOk == [head |-> GitOk(S_main \o <<NL>>), config |-> GitOk(<<NL>>),
              branchStatus |-> GitOk(S_hashes \o <<SP, 109, NL>>),
              porcelain |-> GitOk(<<>>),
              branches |-> GitOk(S_topic \o <<NL>> \o S_main \o <<NL>>)]
QueriesMixed == [head |-> GitOk(S_topic \o <<NL>>), config |-> GitFail,
                 branchStatus |-> GitOk(S_hashes \o <<SP, 116, SP>> \o S_behind \o <<SP, 49, 93, NL>>),
                 porcelain |-> GitOk(<<SP, 77, SP, 102, NL>>),
                 branches |-> GitFail]
QueriesFail == [head |-> GitFail, config |-> GitFail, branchStatus |-> GitFail,
                porcelain |-> GitFail, branches |-> GitFail]
StatusOutcomes == {QueriesMixed, QueriesFail}

\* outcomes of git config get init.defaultbranch: unset value, "t", failure
ConfigOutcomes == {GitOk(<<NL>>), GitOk(S_topic \o <<NL>>), GitFail}
\* outcomes of git status --porcelain --branch: in sync, behind, ahead,
\* diverged ("[ahead 1, behind 1]"), a branch named "[ahead" that is behind, a
\* worktree line naming a file "[behind", no branch header first, failure
BranchStatusOutcomes ==
    {GitOk(S_hashes \o <<SP, 109, NL>>),
     GitOk(S_hashes \o <<SP, 116, SP>> \o S_behind \o <<SP, 49, 93, NL>>),
     GitOk(S_hashes \o <<SP, 116, SP>> \o S_ahead \o <<SP, 49, 93, NL>>),
     GitOk(S_hashes \o <<SP, 116, SP>> \o S_ahead \o <<SP, 49, 44, SP>>
               \o <<98, 101, 104, 105, 110, 100, SP, 49, 93, NL>>),
     GitOk(S_hashes \o <<SP>> \o S_ahead \o <<SP>> \o S_behind \o <<SP, 49, 93, NL>>),
     GitOk(S_hashes \o <<SP, 109, NL, 63, 63, SP>> \o S_behind \o <<NL>>),
     GitOk(<<63, 63, SP>> \o S_ahead \o <<NL>> \o S_hashes \o <<SP, 109, NL>>),
     GitFail}
\* outcomes of git branch --format: "t" and "main", failure
BranchesOutcomes == {GitOk(S_topic \o <<NL>> \o S_main \o <<NL>>), GitFail}
\* every combination of outcomes of the five git queries of statusRepo
AllStatusOutcomes ==
    [head : HeadOutcomes, config : ConfigOutcomes, branchStatus : BranchStatusOutcomes,
     porcelain : PorcelainOutcomes, branches : BranchesOutcomes]
\* the outcomes the queries of a status task can have in the repositories of
\* environment env
QueryOutcomes(env) == IF env = "every" THEN AllStatusOutcomes ELSE StatusOutcomes

LongestName_First(repos) == IF repos = <<>> THEN 0 ELSE Len(RelPath(Head(repos)))

\* the longestName loop of the status-mode applyAction
RECURSIVE LongestName(_)
LongestName(repos) ==
    IF repos = <<>> THEN 0 ELSE Max(Len(RelPath(Head(repos))), LongestName(Tail(repos)))

(* ------------------------------- Init ---------------------------------- *)
FilterFlags == [branch : {<<>>, S_topic}, dirty : BOOLEAN, clean : BOOLEAN]
NoFilters == [branch |-> <<>>, dirty |-> FALSE, clean |-> FALSE]
Modes == {"command", "status", "none"}

MkFlags(f, n, m) ==
    [parallel |-> n, branch |-> f.branch, dirty |-> f.dirty, clean |-> f.clean, mode |-> m]

\* trees whose special directories lie at the working directory or directly
\* below it, every repository on branch main with a clean worktree
HealthyRepo == [kind |-> "git", head |-> GitOk(S_main \o <<NL>>), porcelain |-> GitOk(<<>>)]
ShallowTrees == {t \in Trees(MaxTasks, {HealthyRepo, UnreadableDir}) :
                    \A d \in Dirs : t[d].kind # "plain" => Len(d) <= 1}

\* the state of the process when main starts, apart from command line and tree
InitProcess ==
    /\ pcMain = "parse"
    /\ gitRepos = <<>>
    /\ next = 0
    /\ results = <<>>
    /\ finalExitCode = 0
    /\ totalTasks = 0
    /\ remainingTasks = 0
    /\ sem = 0
    /\ semClosed = FALSE
    /\ wg = 0
    /\ mu = 0
    /\ taskpc = <<>>
    /\ tlocal = <<>>
    /\ frames = 0
    /\ dots = 1
    /\ printed = <<>>
    /\ exitCode = -1

\* runs of every mode and parallelism over the shallow trees, without filters
Init ==
    /\ InitProcess
    /\ statusEnv = "sample"
    /\ fs \in ShallowTrees
    /\ flags \in {MkFlags(NoFilters, n, m) : n \in 0..MaxParallel, m \in Modes}

\* command runs over the trees whose first n entries, for some n, are
\* repositories
InitLive ==
    /\ InitProcess
    /\ statusEnv = "sample"
    /\ fs \in {t \in ShallowTrees : \E n \in 0..MaxTasks :
                   \A d \in Dirs : /\ t[d].kind # "unreadable"
                                   /\ t[d].kind = "git" <=> (Len(d) = 1 /\ d[1] <= n)}
    /\ flags \in {MkFlags(NoFilters, n, "command") : n \in 0..MaxParallel}

\* serial command runs over every tree and every filter set
InitWalk ==
    /\ InitProcess
    /\ statusEnv = "sample"
    /\ fs \in Trees(MaxSpecial, SpecialDirs)
    /\ flags \in {MkFlags(f, 1, "command") : f \in FilterFlags}

\* serial runs over the trees in which only "a-" may be a repository or
\* unreadable, the git queries of a status task having any of their outcomes
InitStatus ==
    /\ InitProcess
    /\ statusEnv = "every"
    /\ fs \in {t \in ShallowTrees : \A d \in Dirs : t[d].kind # "plain" => d = <<2>>}
    /\ flags \in {MkFlags(NoFilters, 1, m) : m \in {"status", "command"}}

(* ------------------------------- main ---------------------------------- *)
Alive == pcMain \notin {"fatal", "exited"}

MainMode_NoCheck ==
    /\ pcMain = "parse"
    /\ pcMain' = "walk"
    /\ UNCHANGED <<flags, statusEnv, fs, gitRepos, next, totalTasks, printed, exitCode>>
    /\ UNCHANGED <<sharedVars, taskVars, tickVars>>

\* the choice of applyAction; without -status and without a command main exits 1
MainMode ==
    /\ pcMain = "parse"
    /\ IF flags.mode = "none"
       THEN pcMain' = "fatal" /\ exitCode' = 1
       ELSE pcMain' = "walk" /\ exitCode' = exitCode
    /\ UNCHANGED <<flags, statusEnv, fs, gitRepos, next, totalTasks, printed>>
    /\ UNCHANGED <<sharedVars, taskVars, tickVars>>

\* filepath.Walk and the test of its error
MainWalk ==
    /\ pcMain = "walk"
    /\ LET r == Walk(flags, fs)
       IN /\ gitRepos' = r.repos
          /\ IF r.err
             THEN pcMain' = "fatal" /\ exitCode' = 1
             ELSE pcMain' = "sort" /\ exitCode' = exitCode
    /\ UNCHANGED <<flags, statusEnv, fs, next, totalTasks, printed>>
    /\ UNCHANGED <<sharedVars, taskVars, tickVars>>

\* a task's locals before it runs: exitCode and output of processRepo, q the
\* outcomes of statusRepo's git queries, width its parameter, result the
\* formatted string, rem the value read by remainingTasks--
ZeroLocals == [exitCode |-> 0, output |-> <<>>, q |-> <<>>, width |-> 0,
               result |-> <<>>, rem |-> 0]

\* sort.Strings(gitRepos) and the creation of the shared state, the semaphore,
\* the ticker and the progress goroutine.  The walk was main's last read of the
\* tree; from here on the repositories are touched by the tasks only, whose
\* commands may change them, so the tree is not tracked any further.
MainSetup ==
    /\ pcMain = "sort"
    /\ gitRepos' = SortStrings(gitRepos)
    /\ results' = <<>>
    /\ finalExitCode' = 0
    /\ totalTasks' = Len(gitRepos)
    /\ remainingTasks' = Len(gitRepos)
    /\ sem' = 0
    /\ semClosed' = FALSE
    /\ taskpc' = [i \in 1..Len(gitRepos) |-> "idle"]
    /\ tlocal' = [i \in 1..Len(gitRepos) |-> ZeroLocals]
    /\ next' = 1
    /\ fs' = EmptyTree
    /\ pcMain' = "loop"
    /\ UNCHANGED <<flags, statusEnv, wg, mu, printed, exitCode, tickVars>>

\* the head of the dispatch loop and wg.Add(1)
MainAdd ==
    /\ pcMain = "loop"
    /\ IF next > Len(gitRepos)
       THEN pcMain' = "wait" /\ wg' = wg
       ELSE pcMain' = "acquire" /\ wg' = wg + 1
    /\ UNCHANGED <<flags, statusEnv, fs, gitRepos, next, totalTasks, printed, exitCode>>
    /\ UNCHANGED <<results, finalExitCode, remainingTasks, sem, semClosed, mu>>
    /\ UNCHANGED <<taskVars, tickVars>>

MainAcquire_NoGate ==
    /\ pcMain = "acquire"
    /\ sem' = sem + 1
    /\ taskpc' = [taskpc EXCEPT ![next] = "run"]
    /\ next' = next + 1
    /\ pcMain' = "loop"
    /\ UNCHANGED <<flags, statusEnv, fs, gitRepos, totalTasks, printed, exitCode>>
    /\ UNCHANGED <<results, finalExitCode, remainingTasks, semClosed, wg, mu>>
    /\ UNCHANGED <<tlocal, tickVars>>

MainAcquire_AtLeastOne ==
    /\ pcMain = "acquire"
    /\ sem < Max(flags.parallel, 1)
    /\ sem' = sem + 1
    /\ taskpc' = [taskpc EXCEPT ![next] = "run"]
    /\ next' = next + 1
    /\ pcMain' = "loop"
    /\ UNCHANGED <<flags, statusEnv, fs, gitRepos, totalTasks, printed, exitCode>>
    /\ UNCHANGED <<results, finalExitCode, remainingTasks, semClosed, wg, mu>>
    /\ UNCHANGED <<tlocal, tickVars>>

MainAcquire_Reversed ==
    /\ pcMain = "acquire"
    /\ sem < flags.parallel
    /\ sem' = sem + 1
    /\ taskpc' = [taskpc EXCEPT ![Len(gitRepos) + 1 - next] = "run"]
    /\ next' = next + 1
    /\ pcMain' = "loop"
    /\ UNCHANGED <<flags, statusEnv, fs, gitRepos, totalTasks, printed, exitCode>>
    /\ UNCHANGED <<results, finalExitCode, remainingTasks, semClosed, wg, mu>>
    /\ UNCHANGED <<tlocal, tickVars>>

\* sem <- struct{}{} and the go statement
MainAcquire ==
    /\ pcMain = "acquire"
    /\ sem < flags.parallel
    /\ sem' = sem + 1
    /\ taskpc' = [taskpc EXCEPT ![next] = "run"]
    /\ next' = next + 1
    /\ pcMain' = "loop"
    /\ UNCHANGED <<flags, statusEnv, fs, gitRepos, totalTasks, printed, exitCode>>
    /\ UNCHANGED <<results, finalExitCode, remainingTasks, semClosed, wg, mu>>
    /\ UNCHANGED <<tlocal, tickVars>>

MainWait_NoWait ==
    /\ pcMain = "wait"
    /\ pcMain' = "close"
    /\ UNCHANGED <<flags, statusEnv, fs, gitRepos, next, totalTasks, printed, exitCode>>
    /\ UNCHANGED <<sharedVars, taskVars, tickVars>>

\* wg.Wait()
MainWait ==
    /\ pcMain = "wait"
    /\ wg = 0
    /\ pcMain' = "close"
    /\ UNCHANGED <<flags, statusEnv, fs, gitRepos, next, totalTasks, printed, exitCode>>
    /\ UNCHANGED <<sharedVars, taskVars, tickVars>>

\* close(sem)
MainClose ==
    /\ pcMain = "close"
    /\ semClosed' = TRUE
    /\ pcMain' = "clear"
    /\ UNCHANGED <<flags, statusEnv, fs, gitRepos, next, totalTasks, printed, exitCode>>
    /\ UNCHANGED <<results, finalExitCode, remainingTasks, sem, wg, mu>>
    /\ UNCHANGED <<taskVars, tickVars>>

\* the print that clears the progress line
MainClear ==
    /\ pcMain = "clear"
    /\ pcMain' = "sortres"
    /\ UNCHANGED <<flags, statusEnv, fs, gitRepos, next, totalTasks, printed, exitCode>>
    /\ UNCHANGED <<sharedVars, taskVars, tickVars>>

\* sort.Strings(results)
MainSortResults ==
    /\ pcMain = "sortres"
    /\ results' = SortStrings(results)
    /\ pcMain' = "print"
    /\ UNCHANGED <<flags, statusEnv, fs, gitRepos, next, totalTasks, printed, exitCode>>
    /\ UNCHANGED <<finalExitCode, remainingTasks, sem, semClosed, wg, mu>>
    /\ UNCHANGED <<taskVars, tickVars>>

\* one iteration of the loop printing the results
MainPrint ==
    /\ pcMain = "print"
    /\ IF Len(printed) < Len(results)
       THEN printed' = Append(printed, results[Len(printed) + 1]) /\ pcMain' = pcMain
       ELSE printed' = printed /\ pcMain' = "exit"
    /\ UNCHANGED <<flags, statusEnv, fs, gitRepos, next, totalTasks, exitCode>>
    /\ UNCHANGED <<sharedVars, taskVars, tickVars>>

\* os.Exit(finalExitCode)
MainExit ==
    /\ pcMain = "exit"
    /\ exitCode' = finalExitCode
    /\ pcMain' = "exited"
    /\ UNCHANGED <<flags, statusEnv, fs, gitRepos, next, totalTasks, printed>>
    /\ UNCHANGED <<sharedVars, taskVars, tickVars>>

(* ------------------------------- tasks --------------------------------- *)
\* the goroutine of task i entering applyAction and running the command
\* (runCommand) or, in status mode, the git queries up to the rendered line
TaskRun(i) ==
    /\ Alive
    /\ taskpc[i] = "run"
    /\ IF flags.mode = "status"
       THEN \E q \in QueryOutcomes(statusEnv) :
               /\ tlocal' = [tlocal EXCEPT
                                ![i].q = q,
                                ![i].width = LongestName(gitRepos),
                                ![i].result = StatusResult(RelPath(gitRepos[i]),
                                                           LongestName(gitRepos), q)]
               /\ taskpc' = [taskpc EXCEPT ![i] = "lock"]
       ELSE \E c \in CommandOutcomes :
               /\ tlocal' = [tlocal EXCEPT ![i].exitCode = c.exitCode, ![i].output = c.output]
               /\ taskpc' = [taskpc EXCEPT ![i] = "format"]
    /\ UNCHANGED <<flags, statusEnv, fs, mainVars, sharedVars, tickVars>>

TaskFormat_NeverFails(i) ==
    /\ Alive
    /\ taskpc[i] = "format"
    /\ tlocal' = [tlocal EXCEPT ![i].result =
                     ProcessResult(RelPath(gitRepos[i]), tlocal[i].output, tlocal[i].exitCode)]
    /\ taskpc' = [taskpc EXCEPT ![i] = "lock"]
    /\ UNCHANGED <<flags, statusEnv, fs, mainVars, sharedVars, tickVars>>

\* processRepo after runCommand: the marker, the write of *finalExitCode (made
\* without the mutex; every such write stores 1 and main reads the variable
\* only after wg.Wait) and the formatted block
TaskFormat(i) ==
    /\ Alive
    /\ taskpc[i] = "format"
    /\ finalExitCode' = IF tlocal[i].exitCode # 0 THEN 1 ELSE finalExitCode
    /\ tlocal' = [tlocal EXCEPT ![i].result =
                     ProcessResult(RelPath(gitRepos[i]), tlocal[i].output, tlocal[i].exitCode)]
    /\ taskpc' = [taskpc EXCEPT ![i] = "lock"]
    /\ UNCHANGED <<flags, statusEnv, fs, mainVars, tickVars>>
    /\ UNCHANGED <<results, remainingTasks, sem, semClosed, wg, mu>>

\* mu.Lock()
TaskLock(i) ==
    /\ Alive
    /\ taskpc[i] = "lock"
    /\ mu = 0
    /\ mu' = i
    /\ taskpc' = [taskpc EXCEPT ![i] = "append"]
    /\ UNCHANGED <<flags, statusEnv, fs, mainVars, tlocal, tickVars>>
    /\ UNCHANGED <<results, finalExitCode, remainingTasks, sem, semClosed, wg>>

\* *results = append(*results, result) and mu.Unlock(): the critical section,
\* which no other goroutine can observe half-way
TaskAppend(i) ==
    /\ Alive
    /\ taskpc[i] = "append"
    /\ mu = i
    /\ results' = Append(results, tlocal[i].result)
    /\ mu' = 0
    /\ taskpc' = [taskpc EXCEPT ![i] = "done"]
    /\ UNCHANGED <<flags, statusEnv, fs, mainVars, tlocal, tickVars>>
    /\ UNCHANGED <<finalExitCode, remainingTasks, sem, semClosed, wg>>

\* the deferred wg.Done(), run when processRepo or statusRepo returns
TaskDone(i) ==
    /\ Alive
    /\ taskpc[i] = "done"
    /\ wg' = wg - 1
    /\ taskpc' = [taskpc EXCEPT ![i] = "decread"]
    /\ UNCHANGED <<flags, statusEnv, fs, mainVars, tlocal, tickVars>>
    /\ UNCHANGED <<results, finalExitCode, remainingTasks, sem, semClosed, mu>>

\* remainingTasks--, not synchronised: the read
TaskDecRead(i) ==
    /\ Alive
    /\ taskpc[i] = "decread"
    /\ tlocal' = [tlocal EXCEPT ![i].rem = remainingTasks]
    /\ taskpc' = [taskpc EXCEPT ![i] = "decwrite"]
    /\ UNCHANGED <<flags, statusEnv, fs, mainVars, sharedVars, tickVars>>

TaskDecWrite_ByTwo(i) ==
    /\ Alive
    /\ taskpc[i] = "decwrite"
    /\ remainingTasks' = tlocal[i].rem - 2
    /\ tlocal' = [tlocal EXCEPT ![i].rem = 0]
    /\ taskpc' = [taskpc EXCEPT ![i] = "release"]
    /\ UNCHANGED <<flags, statusEnv, fs, mainVars, tickVars>>
    /\ UNCHANGED <<results, finalExitCode, sem, semClosed, wg, mu>>

\* remainingTasks--, not synchronised: the write; the value read is not used
\* again
TaskDecWrite(i) ==
    /\ Alive
    /\ taskpc[i] = "decwrite"
    /\ remainingTasks' = tlocal[i].rem - 1
    /\ tlocal' = [tlocal EXCEPT ![i].rem = 0]
    /\ taskpc' = [taskpc EXCEPT ![i] = "release"]
    /\ UNCHANGED <<flags, statusEnv, fs, mainVars, tickVars>>
    /\ UNCHANGED <<results, finalExitCode, sem, semClosed, wg, mu>>

TaskRelease_KeepsToken(i) ==
    /\ Alive
    /\ taskpc[i] = "release"
    /\ taskpc' = [taskpc EXCEPT ![i] = "finished"]
    /\ UNCHANGED <<flags, statusEnv, fs, mainVars, sharedVars, tlocal, tickVars>>

\* the deferred <-sem
TaskRelease(i) ==
    /\ Alive
    /\ taskpc[i] = "release"
    /\ sem > 0
    /\ sem' = sem - 1
    /\ taskpc' = [taskpc EXCEPT ![i] = "finished"]
    /\ UNCHANGED <<flags, statusEnv, fs, mainVars, tlocal, tickVars>>
    /\ UNCHANGED <<results, finalExitCode, remainingTasks, semClosed, wg, mu>>

(* ------------------------- progress reporter --------------------------- *)
TickerStarted == pcMain \in {"loop", "acquire", "wait", "close", "clear", "sortres",
                             "print", "exit"}

\* the completed count a progress frame written now shows
Completed == totalTasks - remainingTasks

\* one iteration of the progress goroutine's loop over ticker.C: a frame
\* showing Completed and totalTasks is written
Tick ==
    /\ TickerStarted
    /\ frames < MaxTicks
    /\ frames' = frames + 1
    /\ dots' = IF dots + 1 > 3 THEN 1 ELSE dots + 1
    /\ UNCHANGED <<flags, statusEnv, fs, mainVars, sharedVars, taskVars>>

(* --------------------------- specifications ---------------------------- *)
Main ==
    \/ MainMode
    \/ MainWalk
    \/ MainSetup
    \/ MainAdd
    \/ MainAcquire
    \/ MainWait
    \/ MainClose
    \/ MainClear
    \/ MainSortResults
    \/ MainPrint
    \/ MainExit

Task(i) ==
    \/ TaskRun(i)
    \/ TaskFormat(i)
    \/ TaskLock(i)
    \/ TaskAppend(i)
    \/ TaskDone(i)
    \/ TaskDecRead(i)
    \/ TaskDecWrite(i)
    \/ TaskRelease(i)

Next == Main \/ (\E i \in Tasks : Task(i)) \/ Tick

Spec == Init /\ [][Next]_vars

SpecWalk == InitWalk /\ [][Next]_vars

SpecStatus == InitStatus /\ [][Next]_vars

\* the Go scheduler does not leave main and the tasks idle for ever while one
\* of them can take a step; the ticker may or may not fire
Progress == Main \/ (\E i \in Tasks : Task(i))
FairSpec == InitLive /\ [][Next]_vars /\ WF_vars(Progress)

(* ------------------------------ properties ----------------------------- *)
Range(seq) == {seq[k] : k \in DOMAIN seq}
Count(seq, x) == Cardinality({k \in DOMAIN seq : seq[k] = x})

\* task i is inside processRepo or statusRepo
Running(i) == taskpc[i] \in {"run", "format", "lock", "append", "done"}
\* task i has appended its result and called wg.Done
Returned(i) == taskpc[i] \in {"decread", "decwrite", "release", "finished"}
\* main is past wg.Wait
PastWait == pcMain \in {"close", "clear", "sortres", "print", "exit", "exited"}

\* C1: in every reachable state the number of tasks inside their action
\* (processRepo or statusRepo) is at most the configured parallelism limit.
C1_GateBound == Cardinality({i \in Tasks : Running(i)}) <= flags.parallel

\* a limit of 2 is reached while the dispatcher is blocked on the third task
C1_Witness ==
    /\ flags.parallel = 2
    /\ Cardinality({i \in Tasks : Running(i)}) = 2
    /\ pcMain = "acquire"
    /\ next = 3

\* C2: with a limit of at least 1 and fair scheduling, once the orchestration
\* has been set up every task is eventually admitted, runs and returns, and
\* main eventually prints every result and exits.
C2_AllComplete ==
    (pcMain = "loop" /\ flags.parallel >= 1)
        ~> (/\ pcMain = "exited"
            /\ \A i \in Tasks : Returned(i)
            /\ Len(printed) = Len(gitRepos))

\* a serial run over three repositories has exited
C2_Witness ==
    /\ pcMain = "exited"
    /\ flags.parallel = 1
    /\ Len(gitRepos) = 3
    /\ \A i \in Tasks : Returned(i)

\* C3: when main exits after the final output, the exit code is 1 if some
\* command task saw a non-zero exit code and 0 otherwise; in status mode it is 0.
C3_ExitCode ==
    pcMain = "exited" =>
        /\ exitCode \in {0, 1}
        /\ exitCode = 0 <=> (\A i \in Tasks : tlocal[i].exitCode = 0)
        /\ flags.mode = "status" => exitCode = 0

\* a run in which one command succeeded and another failed has exited with 1
C3_Witness ==
    /\ pcMain = "exited"
    /\ exitCode = 1
    /\ \E i, j \in Tasks : tlocal[i].exitCode = 0 /\ tlocal[j].exitCode # 0

\* C4: the printed lines are the tasks' result strings, each as often as it was
\* produced, in non-decreasing byte order, whatever order they were appended in.
C4_SortedOutput ==
    pcMain \in {"exit", "exited"} =>
        /\ Len(printed) = Len(taskpc)
        /\ \A i \in Tasks :
              Count(printed, tlocal[i].result)
                  = Cardinality({j \in Tasks : tlocal[j].result = tlocal[i].result})
        /\ \A k \in 1..(Len(printed) - 1) : ~StrLess(printed[k + 1], printed[k])

\* the output starts with the block of a repository dispatched later than
\* another one
C4_Witness ==
    /\ pcMain = "exited"
    /\ Len(printed) = 3
    /\ printed[1] = tlocal[3].result
    /\ printed[3] = tlocal[1].result

(* ----------------------- properties of the walk ------------------------ *)
\* d passes every active filter, read off the outcomes of the git queries
Matches(fl, tree, d) ==
    /\ fl.branch # <<>> =>
          tree[d].head.rc = 0 /\ TrimSpace(tree[d].head.stdout) = fl.branch
    /\ fl.dirty => tree[d].porcelain.rc = 0 /\ tree[d].porcelain.stdout # <<>>
    /\ fl.clean => tree[d].porcelain.rc = 0 /\ tree[d].porcelain.stdout = <<>>

\* some active filter returns an error on d
FilterErrors(fl, tree, d) ==
    \/ fl.branch # <<>> /\ tree[d].head.rc # 0
    \/ (fl.dirty \/ fl.clean) /\ tree[d].porcelain.rc # 0

ProperAncestors(d) == {SubSeq(d, 1, n) : n \in 0..(Len(d) - 1)}
Reported(d) == AbsPath(d) \in Range(gitRepos)
Walked == pcMain = "sort"

\* C5 as stated: after a completed walk a directory is reported iff it holds a
\* .git directory, passes every active filter and does not lie below a
\* reported repository root.
C5_Original ==
    Walked =>
        \A d \in Dirs :
            Reported(d) <=> /\ fs[d].kind = "git"
                            /\ Matches(flags, fs, d)
                            /\ \A a \in ProperAncestors(d) : ~Reported(a)

\* C5 as amended: after a completed walk a directory is reported iff it holds
\* a .git directory, passes every active filter and does not lie below any
\* directory holding a .git directory, whether that one was reported or
\* excluded by a filter.
C5_Discovery ==
    Walked =>
        \A d \in Dirs :
            Reported(d) <=> /\ fs[d].kind = "git"
                            /\ Matches(flags, fs, d)
                            /\ \A a \in ProperAncestors(d) : fs[a].kind # "git"

\* a repository that passes the filters lies below an excluded repository
\* root and nothing is reported
C5_Witness ==
    /\ Walked
    /\ fs[<<1>>].kind = "git" /\ ~Matches(flags, fs, <<1>>)
    /\ fs[<<1, 1>>].kind = "git" /\ Matches(flags, fs, <<1, 1>>)
    /\ gitRepos = <<>>

\* F2 holds every filter of F
FilterSubset(F, F2) ==
    /\ F.branch # <<>> => F2.branch = F.branch
    /\ F.dirty => F2.dirty
    /\ F.clean => F2.clean

\* C6: after a completed walk, the walk of the same tree under any filter set
\* that holds the filters of this run reports a subset of what this run
\* reported; without filters every repository root that does not lie below
\* another one is reported.
C6_Narrowing ==
    Walked =>
        /\ \A F2 \in FilterFlags :
              FilterSubset(flags, F2) =>
                  Range(Walk(MkFlags(F2, flags.parallel, flags.mode), fs).repos)
                      \subseteq Range(gitRepos)
        /\ Filters(flags) = <<>> =>
              \A d \in Dirs :
                  (fs[d].kind = "git" /\ \A a \in ProperAncestors(d) : fs[a].kind # "git")
                      => Reported(d)

\* without filters "a" is reported; its branch is not the topic branch, while
\* the repository below it is on the topic branch
C6_Witness ==
    /\ Walked
    /\ Filters(flags) = <<>>
    /\ Reported(<<1>>)
    /\ fs[<<1>>].head = GitOk(S_main \o <<NL>>)
    /\ fs[<<1, 1>>].kind = "git" /\ fs[<<1, 1>>].head = GitOk(S_topic \o <<NL>>)

\* the tree in which every query an active filter fails on succeeds instead,
\* with an outcome the filter returns false on
WithoutErrors(fl, tree) ==
    [d \in Dirs |->
        IF tree[d].kind # "git" THEN tree[d]
        ELSE [kind |-> "git",
              head |-> IF fl.branch # <<>> /\ tree[d].head.rc # 0
                       THEN GitOk(S_main \o <<NL>>) ELSE tree[d].head,
              porcelain |-> IF tree[d].porcelain.rc = 0 THEN tree[d].porcelain
                            ELSE IF fl.dirty THEN GitOk(<<>>)
                            ELSE IF fl.clean THEN GitOk(<<SP, 77, SP, 102, NL>>)
                            ELSE tree[d].porcelain]]

\* C7: the walk ends as it would if every failing filter had returned false:
\* it aborts in the same cases (never because of a filter), it reports
\* the same repositories, none of them one a filter failed on, and main goes
\* on to dispatch one task for each.
C7_FilterErrorIsFalse ==
    /\ pcMain \in {"sort", "fatal"} =>
          LET r == Walk(flags, WithoutErrors(flags, fs))
          IN /\ (pcMain = "fatal") = r.err
             /\ pcMain = "sort" =>
                   /\ gitRepos = r.repos
                   /\ \A d \in Dirs : FilterErrors(flags, fs, d) => ~Reported(d)
    /\ pcMain \in {"wait", "close", "clear", "sortres", "print", "exit", "exited"} =>
          /\ Len(taskpc) = Len(gitRepos)
          /\ \A i \in Tasks : taskpc[i] # "idle"

\* the branch filter failed on "a", the walk went on and reported "a-"
C7_Witness ==
    /\ Walked
    /\ fs[<<1>>].kind = "git"
    /\ FilterErrors(flags, fs, <<1>>)
    /\ gitRepos = <<AbsPath(<<2>>)>>

(* ------------------ properties of the shared state --------------------- *)
\* C8: once main has cleared the progress line, no progress frame is written.
C8_NoFrameAfterClear ==
    [][(pcMain \in {"sortres", "print", "exit"}) => (frames' = frames)]_vars

\* task i stores to *finalExitCode in this step
WritesFlag(i) == taskpc[i] = "format" /\ taskpc'[i] = "lock" /\ tlocal[i].exitCode # 0
\* task i appends to *results in this step
AppendsResult(i) == taskpc[i] = "append" /\ taskpc'[i] = "done"

\* C9: a task appends to the results and writes the failure flag only while
\* it holds the mutex.
C9_UnderMutex ==
    [][\A i \in Tasks : (WritesFlag(i) \/ AppendsResult(i)) => (mu = i)]_vars

\* C10: once main is past wg.Wait, so whenever it sorts, prints or reads the
\* failure flag, every task has returned and the results hold the result of
\* each dispatched repository exactly once.
C10_ResultsComplete ==
    PastWait =>
        /\ Len(results) = Len(gitRepos)
        /\ \A i \in Tasks : Returned(i) /\ Count(results, tlocal[i].result) = 1

\* main is about to sort three results, one of them of a failed command
C10_Witness ==
    /\ pcMain = "sortres"
    /\ Len(results) = 3
    /\ \E i \in Tasks : tlocal[i].exitCode # 0

(* -------------------- properties of the status lines ------------------- *)
\* task i has rendered its status line
RenderedStatus(i) == flags.mode = "status" /\ taskpc[i] \notin {"idle", "run"}
\* task i runs the longestName loop and renders its line in this step
ComputesWidth(i) == flags.mode = "status" /\ taskpc[i] = "run" /\ taskpc'[i] # "run"

\* the length of the longest relative path among the matched repositories
Widest ==
    IF gitRepos = <<>> THEN 0
    ELSE CHOOSE w \in {Len(RelPath(p)) : p \in Range(gitRepos)} :
             \A p \in Range(gitRepos) : Len(RelPath(p)) <= w

\* the path column of a line: the bold relative path padded to w bytes
Column(rel, w) == S_bold \o rel \o [k \in 1..(w - Len(rel)) |-> SP] \o S_reset
\* the path column of task i's line, padded to the longest relative path
PathColumn(i) == Column(RelPath(gitRepos[i]), Widest)

\* C11 as amended: in status mode every rendered line has its path column
\* padded to the length of the longest relative path among all matched
\* repositories, the width every task computes for itself from the matched list.
C11_SameWidth ==
    flags.mode = "status" =>
        LET w == Widest
        IN \A i \in Tasks :
               RenderedStatus(i) =>
                   /\ tlocal[i].width = w
                   /\ HasPrefix(tlocal[i].result, Column(RelPath(gitRepos[i]), w))

\* C11 as stated: every line has the width of the longest relative path, and
\* that width is computed once, before any status line is rendered.
C11_Original ==
    /\ []C11_SameWidth
    /\ [][\A i \in Tasks :
            ComputesWidth(i) => (\A j \in Tasks : tlocal[j].result = <<>>)]_vars

\* two lines are rendered, the shorter path padded to the length of the longer
C11_Witness ==
    /\ Len(taskpc) = 2
    /\ RenderedStatus(1) /\ RenderedStatus(2)
    /\ Len(RelPath(gitRepos[1])) = 1
    /\ Len(RelPath(gitRepos[2])) = 2
    /\ tlocal[1].width = 2

(* ------------------ properties of the reported list -------------------- *)
\* path p lies below path q
IsBelow(p, q) == HasPrefix(p, q \o <<SLASH>>)
\* main has sorted gitRepos and created the shared state
AfterSetup == pcMain \notin {"parse", "walk", "sort", "fatal"}

\* C12: after a completed walk no reported repository lies below a directory
\* holding a .git directory, whether that one was reported or excluded by a
\* filter; the list main dispatches from is in strictly increasing byte order
\* and none of its paths lies below another one.
C12_NoDescent ==
    /\ Walked =>
          \A d \in Dirs :
              Reported(d) => \A a \in ProperAncestors(d) : fs[a].kind # "git"
    /\ AfterSetup =>
          \A k, l \in 1..Len(gitRepos) :
              /\ k < l => StrLess(gitRepos[k], gitRepos[l])
              /\ ~IsBelow(gitRepos[k], gitRepos[l])

\* under the branch filter "a" was recorded; the repository below it, which
\* passes the filter too, was not visited
C12_Witness ==
    /\ Walked
    /\ flags.branch = S_topic
    /\ fs[<<1>>].kind = "git" /\ Matches(flags, fs, <<1>>)
    /\ fs[<<1, 1>>].kind = "git" /\ Matches(flags, fs, <<1, 1>>)
    /\ gitRepos = <<AbsPath(<<1>>)>>

(* ------------------ properties of the task life cycle ------------------ *)
\* how far task i has come: queued, admitted and running, returned from its
\* action, counter decremented, slot released
Stage(pc) ==
    CASE pc = "idle" -> 0
      [] pc \in {"run", "format", "lock", "append", "done"} -> 1
      [] pc \in {"decread", "decwrite"} -> 2
      [] pc = "release" -> 3
      [] pc = "finished" -> 4

\* C13: whenever main is past wg.Wait every task has decremented the counter
\* and released its slot, so that the completed count equals the total; no
\* task ever moves backward.
C13_CompletedAtWait ==
    /\ [](PastWait => /\ \A i \in Tasks : taskpc[i] = "finished"
                      /\ sem = 0
                      /\ Completed = totalTasks)
    /\ [][\A i \in Tasks : Stage(taskpc'[i]) >= Stage(taskpc[i])]_vars

\* task i has been given a slot and its goroutine has been started
Admitted(i) == taskpc[i] # "idle"

\* C14: a task has been admitted only if the task of every matched repository
\* with a smaller path has been admitted: tasks acquire their slots in the
\* sorted order of the repositories.
C14_AdmissionOrder ==
    AfterSetup =>
        \A i, j \in Tasks :
            (Admitted(j) /\ ~Admitted(i)) => ~StrLess(gitRepos[i], gitRepos[j])

\* with a limit of 2 the task admitted second has finished while the task
\* admitted first is still running its command
C14_Witness ==
    /\ flags.parallel = 2
    /\ Len(taskpc) >= 2
    /\ taskpc[1] = "run"
    /\ taskpc[2] = "finished"

(* ----------------- properties of the status inspector ------------------ *)
\* the outcomes q with every failed query replaced by a successful one that
\* yields the default of its field: the branch name "!" followed by the error
\* text, the default branch "main", a branch header without ahead or behind,
\* a dirty worktree, no local branches
Defaulted(q) ==
    [head |-> IF q.head.rc # 0 THEN GitOk(<<33>> \o S_errtext \o <<NL>>) ELSE q.head,
     config |-> IF q.config.rc # 0 THEN GitOk(S_main \o <<NL>>) ELSE q.config,
     branchStatus |-> IF q.branchStatus.rc # 0 THEN GitOk(S_hashes \o <<SP, 109, NL>>)
                      ELSE q.branchStatus,
     porcelain |-> IF q.porcelain.rc # 0 THEN GitOk(<<SP, 77, SP, 102, NL>>)
                   ELSE q.porcelain,
     branches |-> IF q.branches.rc # 0 THEN GitOk(<<>>) ELSE q.branches]

\* every one of the five queries failed
AllFailed(q) ==
    /\ q.head.rc # 0 /\ q.config.rc # 0 /\ q.branchStatus.rc # 0
    /\ q.porcelain.rc # 0 /\ q.branches.rc # 0

\* the line of a repository on which every query failed: the placeholder
\* branch in the colour of a branch other than the default one, the dirty marker
LineOfFailures(i) ==
    PathColumn(i) \o <<SP, 91, ESC, 91, 49, 59, 51, 49, 109, 33>> \o S_errtext
        \o S_reset \o <<93>>
        \o S_red \o <<40>> \o S_reset \o S_dirtyMark \o S_red \o <<41>> \o S_reset

\* task i is past its append to the results
Appended(i) == taskpc[i] \notin {"idle", "run", "format", "lock", "append"}

\* C15: whatever queries of a status task fail, its line is the line rendered
\* from the defaults of the failed fields, it is appended exactly once and the
\* failure flag stays clear.
C15_Defaults ==
    \A i \in Tasks :
        RenderedStatus(i) =>
            /\ tlocal[i].result =
                   StatusResult(RelPath(gitRepos[i]), Widest, Defaulted(tlocal[i].q))
            /\ AllFailed(tlocal[i].q) => tlocal[i].result = LineOfFailures(i)
            /\ Count(results, tlocal[i].result) = IF Appended(i) THEN 1 ELSE 0
            /\ finalExitCode = 0

\* the line of a repository on which all five queries failed has been appended
C15_Witness ==
    /\ flags.mode = "status"
    /\ Len(taskpc) = 1
    /\ Appended(1)
    /\ AllFailed(tlocal[1].q)
    /\ results = <<LineOfFailures(1)>>

\* the text of s before its first newline
Line1(s) ==
    LET n == CHOOSE k \in 1..(Len(s) + 1) :
                 /\ k = Len(s) + 1 \/ s[k] = NL
                 /\ \A m \in 1..(k - 1) : s[m] # NL
    IN SubSeq(s, 1, n - 1)

\* the query failed or its first line is not a branch header
SyncError(b) == b.rc # 0 \/ ~HasPrefix(Line1(b.stdout), S_hashes)

\* the state the claim gives for the outcome b of the branch listing
SyncOf(b) ==
    IF SyncError(b) THEN SyncRemote
    ELSE IF Contains(Line1(b.stdout), S_behind) THEN BehindRemote
    ELSE IF Contains(Line1(b.stdout), S_ahead) THEN AheadRemote
    ELSE SyncRemote

\* C16: for the branch listing a status task has read, getRemoteSyncStatus
\* fails exactly when the query failed or the first line does not start with
\* "##"; otherwise it returns BehindRemote when the first line contains
\* "[behind", else AheadRemote when it contains "[ahead", else SyncRemote; the
\* rendered line carries the behind or ahead marker of that state, and
\* neither marker after an error.
C16_FirstLineOnly ==
    \A i \in Tasks :
        RenderedStatus(i) =>
            LET b == tlocal[i].q.branchStatus
            IN /\ getRemoteSyncStatus(b).err = SyncError(b)
               /\ ~SyncError(b) => getRemoteSyncStatus(b).state = SyncOf(b)
               /\ Contains(tlocal[i].result, S_behindMark) = (SyncOf(b) = BehindRemote)
               /\ Contains(tlocal[i].result, S_aheadMark) = (SyncOf(b) = AheadRemote)

\* a header holding both "[ahead" and "[behind" was rendered with the behind
\* marker
C16_Witness ==
    /\ flags.mode = "status"
    /\ Len(taskpc) = 1
    /\ RenderedStatus(1)
    /\ tlocal[1].q.branchStatus.rc = 0
    /\ Contains(Line1(tlocal[1].q.branchStatus.stdout), S_ahead)
    /\ Contains(Line1(tlocal[1].q.branchStatus.stdout), S_behind)
    /\ Contains(tlocal[1].result, S_behindMark)

ZeroLimit == flags.parallel = 0 /\ AfterSetup

\* C18: with a limit of 0 and at least one matched repository main never gets
\* past its first send on sem: it reaches the send and stays there, no task
\* is started, nothing is appended or printed and the process does not exit;
\* with no matched repository the run ends with exit code 0.
C18_ZeroLimitBlocks ==
    /\ [](ZeroLimit /\ gitRepos # <<>> =>
             /\ pcMain \in {"loop", "acquire"}
             /\ next = 1
             /\ \A i \in Tasks : taskpc[i] = "idle"
             /\ results = <<>> /\ printed = <<>>
             /\ exitCode = -1)
    /\ (ZeroLimit /\ gitRepos # <<>>) ~> [](pcMain = "acquire")
    /\ (ZeroLimit /\ gitRepos = <<>>) ~> (pcMain = "exited" /\ exitCode = 0)

\* main is blocked on the send for the first of three repositories while the
\* ticker has fired
C18_Witness ==
    /\ flags.parallel = 0
    /\ pcMain = "acquire"
    /\ Len(gitRepos) = 3
    /\ next = 1
    /\ frames > 0

(* ------------------ properties of the progress counter ----------------- *)
\* C19: the completed count a progress frame shows, total minus remaining,
\* lies between 0 and the total and is at most the number of tasks that have
\* returned from their action, for every interleaving of the reads and
\* writes of the unsynchronised decrements.
C19_CounterBounds ==
    /\ 0 <= Completed
    /\ Completed <= totalTasks
    /\ Completed <= Cardinality({i \in Tasks : Returned(i)})

\* three tasks have finished and, an update having been lost, the count the
\* next frame shows is below three
C19_Witness ==
    /\ totalTasks = 3
    /\ \A i \in Tasks : taskpc[i] = "finished"
    /\ Completed < 3
    /\ TickerStarted

(* ------------------- properties of the printed blocks ------------------ *)
\* the task whose block is the k-th printed line
TaskOf(k) == CHOOSE i \in Tasks : tlocal[i].result = printed[k]
\* the k-th printed block is that of a command that exited non-zero
Fails(k) == tlocal[TaskOf(k)].exitCode # 0
\* the text of the k-th printed block after the bold sequence and the marker
AfterMarker(k) ==
    SubSeq(printed[k],
           Len(S_bold) + Len(IF Fails(k) THEN S_cross ELSE S_check) + 1,
           Len(printed[k]))

\* C20: in command mode no block of a failed command is printed before a
\* block of a successful one, and two blocks of the same group are printed in
\* the byte order of their texts after the marker.
C20_SuccessFirst ==
    flags.mode = "command" =>
        \A k, l \in 1..Len(printed) :
            k < l =>
                /\ ~(Fails(k) /\ ~Fails(l))
                /\ Fails(k) = Fails(l) => ~StrLess(AfterMarker(l), AfterMarker(k))

\* the block of the successful command in the second repository is printed
\* before the block of the failed command in the first
C20_Witness ==
    /\ flags.mode = "command"
    /\ pcMain = "exited"
    /\ Len(printed) = 2
    /\ printed[1] = tlocal[2].result /\ tlocal[2].exitCode = 0
    /\ printed[2] = tlocal[1].result /\ tlocal[1].exitCode # 0

====
